---- MODULE Spec2Model ----
(***************************************************************************)
(* Model of index.js, the self-service-portal tenant setup script.         *)
(*                                                                         *)
(* The script is one asynchronous function, runSetup, running on the Node  *)
(* event loop.  Every `await` is a suspension point; what runs between two *)
(* suspension points is one atomic step.  The remote management API, the   *)
(* local file system and the operator at the prompt are the environment:   *)
(* their answers are the nondeterministic inputs of the actions.           *)
(***************************************************************************)
EXTENDS Integers, Sequences, FiniteSets, TLC

(* ---------------------------------------------------------------------- *)
(* Bounds of the model                                                     *)
(* ---------------------------------------------------------------------- *)

\* 429 answers the remote gives in one behaviour
MaxRateLimited == 2

\* failures other than 429 (remote or file system) in one behaviour
MaxFailures == 1

\* connections, of all strategies together, the tenant holds
MaxConns == 3

\* runs of the script against the same tenant
MaxRuns == 2

\* entries of enabled_clients a fetched connection can hold already
MaxEnabled == 2

(* ---------------------------------------------------------------------- *)
(* JavaScript values                                                       *)
(* ---------------------------------------------------------------------- *)

\* the value `undefined`
Undefined == [t |-> "undefined"]

\* the empty object {}
EmptyObject == [k \in {} |-> ""]

\* index.js:169
DELAY_SECONDS == 5

Strategies == <<"ad", "sms", "email">>

SelectionKeys ==
  <<"selected_ad_connection", "selected_sms_connection", "selected_email_connection">>

Range(s) == {s[i] : i \in DOMAIN s}

(* ---------------------------------------------------------------------- *)
(* The remote API (environment)                                            *)
(* ---------------------------------------------------------------------- *)

\* what a request can come back with: success, or a failure with its status
\* code (0: a failure that carries none, e.g. a connection error)
Outcomes == {"ok", "429", "500", "none"}

\* err.statusCode of a failure
StatusCode(outcome) ==
  CASE outcome = "429" -> 429
    [] outcome = "500" -> 500
    [] OTHER -> 0

ConnId(s, i) == "con_" \o s \o ToString(i)

\* a tenant with n[s] connections of strategy s, nothing provisioned yet
InitialTenant(n) ==
  [ clients |-> << >>,
    rs      |-> << >>,
    rules   |-> << >>,
    grants  |-> << >>,
    connections |->
      [ id \in UNION {{ConnId(s, i) : i \in 1..n[s]} : s \in Range(Strategies)} |->
          LET s == CHOOSE x \in Range(Strategies) : \E i \in 1..n[x] : id = ConnId(x, i)
          IN  [ id |-> id, name |-> "my-" \o id, strategy |-> s,
                enabled_clients |-> <<"x">>, metadata |-> EmptyObject ] ] ]

\* serialised JSON text of a value, and its parse
JsonText(v) == [json |-> v]
JsonParse(text) == text.json

\* GET connections?strategy=s&fields=name: the body, a JSON text
RemoteFind(tenant, s) ==
  LET ids == {id \in DOMAIN tenant.connections : tenant.connections[id].strategy = s}
      n   == Cardinality(ids)
  IN  JsonText([i \in 1..n |->
        LET id == ConnId(s, i)
        IN  [id |-> id, name |-> tenant.connections[id].name]])

\* the object the remote stores for a POST to a collection
Created(tenant, req) ==
  CASE req.entity = "clients" ->
         LET k == ToString(Len(tenant.clients) + 1)
         IN  [ client_id |-> "c" \o k, client_secret |-> "secret" \o k,
               name |-> req.json.name ]
    [] req.entity = "resource-servers" ->
         [ id |-> "rs" \o ToString(Len(tenant.rs) + 1), name |-> req.json.name ]
    [] req.entity = "rules" ->
         [ id |-> "rul" \o ToString(Len(tenant.rules) + 1), name |-> req.json.name ]
    [] req.entity = "client-grants" ->
         [ id |-> "cgr" \o ToString(Len(tenant.grants) + 1),
           client_id |-> req.json.client_id ]

\* the tenant after the remote has carried out a request
RemoteApply(tenant, req) ==
  CASE req.method = "POST" /\ req.entity = "clients" ->
         [tenant EXCEPT !.clients = Append(@, Created(tenant, req))]
    [] req.method = "POST" /\ req.entity = "resource-servers" ->
         [tenant EXCEPT !.rs = Append(@, Created(tenant, req))]
    [] req.method = "POST" /\ req.entity = "rules" ->
         [tenant EXCEPT !.rules = Append(@, Created(tenant, req))]
    [] req.method = "POST" /\ req.entity = "client-grants" ->
         [tenant EXCEPT !.grants = Append(@, Created(tenant, req))]
    [] req.method = "PATCH" ->
         [tenant EXCEPT !.connections[req.id].enabled_clients = req.json.enabled_clients,
                        !.connections[req.id].metadata = req.json.metadata]
    [] OTHER -> tenant

\* the body of the successful response to a request
RemoteBody(tenant, req) ==
  CASE req.method = "POST"  -> Created(tenant, req)
    [] req.method = "GET"   -> JsonText(tenant.connections[req.id])
    [] req.method = "PATCH" -> RemoteApply(tenant, req).connections[req.id]

(* ---------------------------------------------------------------------- *)
(* Payloads and requests                                                   *)
(* ---------------------------------------------------------------------- *)

\* contents of the two template files next to the script
PageHtml == "<portal_login.html>"
RuleCode == "<issue_scopes_rule.js>"

Audience == "urn:self-service-portal-api"

PortalPayload(config) ==
  [ name |-> "Self Service Portal",
    callbacks |-> <<config.portal_url \o "/callback">>,
    jwt_configuration |-> [alg |-> "RS256"],
    custom_login_page |-> PageHtml,
    custom_login_page_on |-> TRUE,
    app_type |-> "spa",
    grant_types |-> <<"authorization_code", "implicit">> ]

BackendPayload ==
  [ name |-> "Self Service Backend",
    app_type |-> "non_interactive",
    grant_types |-> << "client_credentials",
                       "http://auth0.com/oauth/grant-type/password-realm",
                       "http://auth0.com/oauth/legacy/grant-type/ro",
                       "password" >> ]

ApiPayload ==
  [ name |-> "Self Service API",
    identifier |-> Audience,
    scopes |-> << [value |-> "change:password",  description |-> "Change Password"],
                  [value |-> "reset:password",   description |-> "Reset Password"],
                  [value |-> "update:enrolment", description |-> "Update Enrolment"],
                  [value |-> "create:enrolment", description |-> "Create Enrolment"],
                  [value |-> "read:enrolment",   description |-> "Read Enrolment"],
                  [value |-> "delete:enrolment", description |-> "delete:enrolment"] >> ]

RulePayload ==
  [ name |-> "Self Service Issue Scopes", script |-> RuleCode, enabled |-> TRUE ]

GrantPayload(config, backendClient) ==
  [ client_id |-> backendClient.client_id,
    audience  |-> "https://" \o config.domain \o "/api/v2/",
    scope     |-> <<"read:users", "update:users", "delete:users">> ]

\* the arguments a call of createEntity / getEntity / patchEntity closes over
CreateArgs(entity, payload)    == [op |-> "create", entity |-> entity, id |-> "", payload |-> payload]
GetArgs(entity, id)            == [op |-> "get",    entity |-> entity, id |-> id, payload |-> Undefined]
PatchArgs(entity, id, payload) == [op |-> "patch",  entity |-> entity, id |-> id, payload |-> payload]

\* the request rp(...) is given by the three operations
RequestOf(config, args) ==
  [ method |-> CASE args.op = "create" -> "POST"
                 [] args.op = "get"    -> "GET"
                 [] args.op = "patch"  -> "PATCH",
    uri    |-> "https://" \o config.domain \o "/api/v2/" \o args.entity
               \o (IF args.op = "create" THEN "" ELSE "/" \o args.id),
    entity |-> args.entity,
    id     |-> args.id,
    authorization |-> "Bearer " \o config.token,
    json   |-> args.payload ]

(* ---------------------------------------------------------------------- *)
(* State                                                                   *)
(* ---------------------------------------------------------------------- *)

VARIABLES
  pc,                  \* where runSetup is suspended, or how the process ended
  config,              \* the global `config`: domain, token, portal_url
  tenant,              \* what the remote tenant holds
  found,               \* the three findConnections promises of this run
  selectedConnections, \* the operator's answers to the three list prompts
  calls,               \* the createEntity/getEntity/patchEntity calls of this run
  artefacts,           \* portal, backend, api, rule, mgmt_grant of createArtefacts
  patches,             \* the patches enableConnections derived
  files,               \* client.env and server.env next to the script
  console,             \* lines runSetup and validateConnections printed
  rateLimited,         \* 429 answers given so far
  failures,            \* other failures so far
  runs,                \* runs of the script started so far
  processExit          \* the codes process.exit was called with: none, or one

vars == << pc, config, tenant, found, selectedConnections, calls, artefacts,
           patches, files, console, rateLimited, failures, runs, processExit >>

Stage1 == <<"portal", "backend", "api", "rule">>
Gets == <<"get1", "get2", "get3">>
Patches == <<"patch1", "patch2", "patch3">>
CallIds == Range(Stage1) \cup {"mgmt_grant"} \cup Range(Gets) \cup Range(Patches)

\* a slot of createArtefacts not assigned yet
Unset == [t |-> "unset"]

NoFile == "<no file>"

\* A call that has not been made.  status: idle, reading (a template file),
\* inflight (a request is on the wire), delay (in handleError's wait), resolved,
\* rejected.  args: what the call closes over.  sent: the requests it issued.
\* answers: what the remote answered to them.  waits: the delays it took, in
\* milliseconds.  value: what its promise resolved with.  log: what it printed.
NoCall ==
  [ status |-> "idle", args |-> Undefined, sent |-> << >>, answers |-> << >>,
    waits |-> << >>, value |-> Undefined, log |-> << >> ]

DefaultConfig ==
  [ domain |-> "t.example.com", token |-> "tok",
    portal_url |-> "https://portal.example.com" ]

(* ---------------------------------------------------------------------- *)
(* Remote Resource Client and Retry Policy                                 *)
(* ---------------------------------------------------------------------- *)

\* the body up to the await of rp(...): the request is on the wire
Invoke(cfg, call, args) ==
  [ call EXCEPT !.status = "inflight",
                !.args   = args,
                !.sent   = Append(@, RequestOf(cfg, args)),
                !.log    = IF args.op = "create"
                           THEN Append(@, "creating " \o args.entity \o "...")
                           ELSE @ ]

createEntity(cfg, call, entity, payload)    == Invoke(cfg, call, CreateArgs(entity, payload))
getEntity(cfg, call, entity, id)            == Invoke(cfg, call, GetArgs(entity, id))
patchEntity(cfg, call, entity, id, payload) == Invoke(cfg, call, PatchArgs(entity, id, payload))

\* the await of rp(...) ends with the remote's answer
Answered(call, outcome) == [call EXCEPT !.answers = Append(@, outcome)]

\* the try branch: what the call resolves with on a successful response
Resolved(call, body) ==
  [ call EXCEPT !.status = "resolved",
                !.value  = IF call.args.op = "get" THEN JsonParse(body) ELSE body ]

\* handleError that throws the error it does not retry
handleErrorRethrow(call, outcome) ==
  IF StatusCode(outcome) /= 0 /\ StatusCode(outcome) = 429
  THEN [ call EXCEPT !.status = "delay",
                     !.waits  = Append(@, DELAY_SECONDS * 1000),
                     !.log    = Append(@, "rate limited, waiting for "
                                          \o ToString(DELAY_SECONDS)
                                          \o "s before retyring..") ]
  ELSE [ call EXCEPT !.status = "rejected" ]

\* handleError without the test of the status code: every failure is retried
handleErrorRetryAny(call, outcome) ==
  [ call EXCEPT !.status = "delay",
                !.waits  = Append(@, DELAY_SECONDS * 1000),
                !.log    = Append(@, "rate limited, waiting for "
                                     \o ToString(DELAY_SECONDS)
                                     \o "s before retyring..") ]

\* handleError that calls failedOperation without the await of delay()
handleErrorNoDelay(call, outcome) ==
  IF StatusCode(outcome) /= 0 /\ StatusCode(outcome) = 429
  THEN [ call EXCEPT !.status = "delay",
                     !.log    = Append(@, "rate limited, waiting for "
                                          \o ToString(DELAY_SECONDS)
                                          \o "s before retyring..") ]
  ELSE [ call EXCEPT !.status = "resolved",
                     !.value  = Undefined,
                     !.log    = Append(@, "<err.toString()>") ]

\* handleError that retries a rate-limited operation once and then gives up
handleErrorRetryOnce(call, outcome) ==
  IF StatusCode(outcome) /= 0 /\ StatusCode(outcome) = 429 /\ call.waits = << >>
  THEN [ call EXCEPT !.status = "delay",
                     !.waits  = Append(@, DELAY_SECONDS * 1000),
                     !.log    = Append(@, "rate limited, waiting for "
                                          \o ToString(DELAY_SECONDS)
                                          \o "s before retyring..") ]
  ELSE [ call EXCEPT !.status = "resolved",
                     !.value  = Undefined,
                     !.log    = Append(@, "<err.toString()>") ]

\* handleError up to its await (429) or to its end (anything else)
handleError(call, outcome) ==
  IF StatusCode(outcome) /= 0 /\ StatusCode(outcome) = 429
  THEN [ call EXCEPT !.status = "delay",
                     !.waits  = Append(@, DELAY_SECONDS * 1000),
                     !.log    = Append(@, "rate limited, waiting for "
                                          \o ToString(DELAY_SECONDS)
                                          \o "s before retyring..") ]
  ELSE [ call EXCEPT !.status = "resolved",
                     !.value  = Undefined,
                     !.log    = Append(@, "<err.toString()>") ]

\* failedOperation as a closure that passes the entity and the id but no payload
failedOperationNoPayload(cfg, call) ==
  Invoke(cfg, call, [call.args EXCEPT !.payload = Undefined])

\* failedOperation(): the closure calls the same operation with its arguments
failedOperation(cfg, call) == Invoke(cfg, call, call.args)

createPortalClient(cfg, call) == createEntity(cfg, call, "clients", PortalPayload(cfg))
createBackendClient(cfg, call) == createEntity(cfg, call, "clients", BackendPayload)
createBackendAPI(cfg, call) == createEntity(cfg, call, "resource-servers", ApiPayload)
\* createRule posting to the collection of createBackendAPI
createRuleAsApi(cfg, call) == createEntity(cfg, call, "resource-servers", RulePayload)
createRule(cfg, call) == createEntity(cfg, call, "rules", RulePayload)
createMgmtApiGrant(cfg, call, backendClient) ==
  createEntity(cfg, call, "client-grants", GrantPayload(cfg, backendClient))

(* ---------------------------------------------------------------------- *)
(* Connection Enabler and Environment Emitter: the pure parts              *)
(* ---------------------------------------------------------------------- *)

\* _.union(array, values): the elements of both, each kept once
RECURSIVE Uniq(_)
Uniq(seq) ==
  IF seq = << >> THEN << >>
  ELSE LET front == Uniq(SubSeq(seq, 1, Len(seq) - 1))
           last  == seq[Len(seq)]
       IN  IF last \in Range(front) THEN front ELSE Append(front, last)
LodashUnion(array, values) == Uniq(array \o values)

\* _.concat(array, values): a copy of array with the elements of values pushed
LodashConcat(array, values) == array \o values

\* the element cons.map builds for a fetched connection c
DerivePatch(c, arts) ==
  [ id    |-> c.id,
    patch |-> [ enabled_clients |->
                  LodashConcat(c.enabled_clients,
                               <<arts.portal.client_id, arts.backend.client_id>>),
                metadata |->
                  IF c.strategy = "ad"
                  THEN [username_field_name |-> "sAMAccountName"]
                  ELSE EmptyObject ] ]

\* a template literal of KEY=value lines, each ended by a newline
RECURSIVE JoinLines(_)
JoinLines(lines) ==
  IF lines = << >> THEN "" ELSE Head(lines) \o "\n" \o JoinLines(Tail(lines))

ClientEnvLines(cfg, arts) ==
  << "REACT_APP_domain=" \o cfg.domain,
     "REACT_APP_clientID=" \o arts.portal.client_id,
     "REACT_APP_audience=urn:self-service-portal-api" >>

\* ServerEnvLines with the client id taken from the portal client
ServerEnvLinesPortalId(cfg, arts) ==
  << "NON_INTERACTIVE_CLIENT_ID=" \o arts.portal.client_id,
     "NON_INTERACTIVE_CLIENT_SECRET=" \o arts.backend.client_secret,
     "DOMAIN=" \o cfg.domain,
     "AUDIENCE=urn:self-service-portal-api" >>

ServerEnvLines(cfg, arts) ==
  << "NON_INTERACTIVE_CLIENT_ID=" \o arts.backend.client_id,
     "NON_INTERACTIVE_CLIENT_SECRET=" \o arts.backend.client_secret,
     "DOMAIN=" \o cfg.domain,
     "AUDIENCE=urn:self-service-portal-api" >>

client_env(cfg, arts) == JoinLines(ClientEnvLines(cfg, arts))
server_env(cfg, arts) == JoinLines(ServerEnvLines(cfg, arts))

(* ---------------------------------------------------------------------- *)
(* runSetup                                                                *)
(* ---------------------------------------------------------------------- *)

\* a Promise.all that resolves with the first of its promises
AllResolvedSome(cl, ids) == \E i \in DOMAIN ids : cl[ids[i]].status = "resolved"

\* Promise.all(ps) has resolved: every promise of ps has
AllResolved(cl, ids) == \A i \in DOMAIN ids : cl[ids[i]].status = "resolved"

\* the promises an await has consumed are gone with their closures
Consumed(cl, ids) ==
  [ c \in DOMAIN cl |->
      IF c \in Range(ids) /\ cl[c].status = "resolved" THEN NoCall ELSE cl[c] ]

\* Promise.all(ps) has rejected: some promise of ps has
SomeRejected(cl, ids) == \E i \in DOMAIN ids : cl[ids[i]].status = "rejected"

\* the process after getAndValidateConfig: the three discovery queries are out
StartFound ==
  [s \in Range(Strategies) |-> [state |-> "pending", value |-> << >>, sent |-> 1]]
StartCalls == [c \in CallIds |-> NoCall]
StartArtefacts ==
  [ portal |-> Unset, backend |-> Unset, api |-> Unset, rule |-> Unset,
    mgmt_grant |-> Unset ]
StartConsole == <<"Self Service Portal Setup", "analysing tenant...">>

Init ==
  /\ pc = "discovering"
  /\ found = StartFound
  /\ selectedConnections = Undefined
  /\ calls = StartCalls
  /\ artefacts = StartArtefacts
  /\ patches = << >>
  /\ console = StartConsole
  /\ config = DefaultConfig
  /\ \E n \in [Range(Strategies) -> 0..MaxConns] :
       /\ n["ad"] + n["sms"] + n["email"] <= MaxConns
       /\ tenant = InitialTenant(n)
  /\ files = [client |-> NoFile, server |-> NoFile]
  /\ rateLimited = 0
  /\ failures = 0
  /\ runs = 1
  /\ processExit = << >>

\* findConnections with the retry policy of the other operations: the query
\* is sent again after a 429
FindFailedRetried(f, outcome) ==
  IF StatusCode(outcome) = 429
  THEN [f EXCEPT !.sent = @ + 1]
  ELSE [f EXCEPT !.state = "rejected"]

\* the await of rp(...) in findConnections throws: nothing catches the error,
\* the promise of findConnections rejects
FindFailed(f, outcome) == [f EXCEPT !.state = "rejected"]

\* findConnections(strategy) resumes with the response, or fails with the error
FindResponse(s, outcome) ==
  /\ found[s].state = "pending"
  /\ IF outcome = "ok"
     THEN /\ found' = [found EXCEPT ![s] =
                 [ @ EXCEPT
                   !.state = "resolved",
                   !.value = LET connections == JsonParse(RemoteFind(tenant, s))
                             IN  [ i \in DOMAIN connections |->
                                     [ name  |-> connections[i].name,
                                       value |-> connections[i].id ] ] ]]
          /\ UNCHANGED <<rateLimited, failures>>
     ELSE /\ found' = [found EXCEPT ![s] = FindFailed(@, outcome)]
          /\ IF outcome = "429"
             THEN /\ rateLimited < MaxRateLimited
                  /\ rateLimited' = rateLimited + 1
                  /\ UNCHANGED failures
             ELSE /\ failures < MaxFailures
                  /\ failures' = failures + 1
                  /\ UNCHANGED rateLimited
  /\ UNCHANGED << pc, config, tenant, selectedConnections, calls, artefacts,
                  patches, files, console, runs, processExit >>

\* await Promise.all(getConnections) throws: runSetup's promise rejects
DiscoveryRejected ==
  /\ pc = "discovering"
  /\ \E s \in Range(Strategies) : found[s].state = "rejected"
  /\ pc' = "rejected"
  /\ UNCHANGED << config, tenant, found, selectedConnections, calls, artefacts,
                  patches, files, console, rateLimited, failures, runs, processExit >>

\* MissingMessage with the sms check ahead of the ad check
MissingMessageSmsFirst(ad_connections, sms_connections, email_connections) ==
  CASE Len(sms_connections) < 1 ->
         "SMS passwordless connection is required. Please setup passwordless SMS and rerun the script."
    [] Len(ad_connections) < 1 ->
         "AD connection is required. Please setup an AD connection and rerun the script."
    [] Len(email_connections) < 1 ->
         "Email passwordless connection is required. Please setup passwordless Email and rerun the script."
    [] OTHER -> ""

\* MissingMessage without the third check
MissingMessageNoEmail(ad_connections, sms_connections, email_connections) ==
  CASE Len(ad_connections) < 1 ->
         "AD connection is required. Please setup an AD connection and rerun the script."
    [] Len(sms_connections) < 1 ->
         "SMS passwordless connection is required. Please setup passwordless SMS and rerun the script."
    [] OTHER -> ""

\* the message validateConnections prints before process.exit(0), "" if none
MissingMessage(ad_connections, sms_connections, email_connections) ==
  CASE Len(ad_connections) < 1 ->
         "AD connection is required. Please setup an AD connection and rerun the script."
    [] Len(sms_connections) < 1 ->
         "SMS passwordless connection is required. Please setup passwordless SMS and rerun the script."
    [] Len(email_connections) < 1 ->
         "Email passwordless connection is required. Please setup passwordless Email and rerun the script."
    [] OTHER -> ""

\* await Promise.all(getConnections) returns; validateConnections up to the prompt
validateConnections ==
  /\ pc = "discovering"
  /\ \A s \in Range(Strategies) : found[s].state = "resolved"
  /\ LET msg == MissingMessage(found["ad"].value, found["sms"].value, found["email"].value)
     IN  IF msg /= ""
         THEN /\ console' = Append(console, msg)
              /\ processExit' = Append(processExit, 0)
              /\ pc' = "exited"
         ELSE /\ pc' = "prompting"
              /\ UNCHANGED <<console, processExit>>
  /\ UNCHANGED << config, tenant, found, selectedConnections, calls, artefacts,
                  patches, files, rateLimited, failures, runs >>

\* the operator answers the three list prompts; runSetup goes on into
\* createArtefacts, which calls the four create functions
PromptAnswer(ad, sms, email) ==
  /\ pc = "prompting"
  /\ selectedConnections' =
       [ selected_ad_connection    |-> ad.value,
         selected_sms_connection   |-> sms.value,
         selected_email_connection |-> email.value ]
  /\ calls' = [ calls EXCEPT
                  !["portal"].status = "reading",
                  !["backend"] = createBackendClient(config, @),
                  !["api"]     = createBackendAPI(config, @),
                  !["rule"].status = "reading" ]
  /\ pc' = "stage1"
  /\ UNCHANGED << config, tenant, found, artefacts, patches, files, console,
                  rateLimited, failures, runs, processExit >>

\* readFileAsync of createPortalClient / createRule completes
ReadFileDone(c, ok) ==
  /\ c \in {"portal", "rule"}
  /\ calls[c].status = "reading"
  /\ IF ok
     THEN /\ calls' = [calls EXCEPT ![c] = IF c = "portal"
                                           THEN createPortalClient(config, @)
                                           ELSE createRule(config, @)]
          /\ UNCHANGED failures
     ELSE /\ failures < MaxFailures
          /\ failures' = failures + 1
          /\ calls' = [calls EXCEPT ![c].status = "rejected"]
  /\ UNCHANGED << pc, config, tenant, found, selectedConnections, artefacts,
                  patches, files, console, rateLimited, runs, processExit >>

\* the remote answers the request a call has on the wire
Respond(c, outcome) ==
  /\ calls[c].status = "inflight"
  /\ LET req == calls[c].sent[Len(calls[c].sent)]
     IN  CASE outcome = "ok" ->
                /\ tenant' = RemoteApply(tenant, req)
                /\ calls' = [calls EXCEPT ![c] =
                               Resolved(Answered(@, outcome), RemoteBody(tenant, req))]
                /\ UNCHANGED <<rateLimited, failures>>
           [] outcome = "429" ->
                /\ rateLimited < MaxRateLimited
                /\ rateLimited' = rateLimited + 1
                /\ calls' = [calls EXCEPT ![c] = handleError(Answered(@, outcome), outcome)]
                /\ UNCHANGED <<tenant, failures>>
           [] OTHER ->
                /\ failures < MaxFailures
                /\ failures' = failures + 1
                /\ calls' = [calls EXCEPT ![c] = handleError(Answered(@, outcome), outcome)]
                /\ UNCHANGED <<tenant, rateLimited>>
  /\ UNCHANGED << pc, config, found, selectedConnections, artefacts, patches,
                  files, console, runs, processExit >>

\* the timer of delay() fires: handleError returns failedOperation()
DelayElapsed(c) ==
  /\ calls[c].status = "delay"
  /\ calls' = [calls EXCEPT ![c] = failedOperation(config, @)]
  /\ UNCHANGED << pc, config, tenant, found, selectedConnections, artefacts,
                  patches, files, console, rateLimited, failures, runs, processExit >>

\* await Promise.all(artefacts) throws: a template file could not be read
Stage1Rejected ==
  /\ pc = "stage1"
  /\ SomeRejected(calls, Stage1)
  /\ pc' = "rejected"
  /\ UNCHANGED << config, tenant, found, selectedConnections, calls, artefacts,
                  patches, files, console, rateLimited, failures, runs, processExit >>

\* an await of the one creation the grant depends on
Stage1AwaitedBackendOnly == <<"backend">>

\* the four creations the await of createArtefacts waits for
Stage1Awaited == Stage1

\* Stage1Results with the first two names of the destructuring exchanged
Stage1ResultsSwapped(cl) ==
  [ portal  |-> cl[Stage1[2]].value,
    backend |-> cl[Stage1[1]].value,
    api     |-> cl[Stage1[3]].value,
    rule    |-> cl[Stage1[4]].value ]

\* const [portal, backend, api, rule] = await Promise.all(artefacts)
Stage1Results(cl) ==
  [ portal  |-> cl[Stage1[1]].value,
    backend |-> cl[Stage1[2]].value,
    api     |-> cl[Stage1[3]].value,
    rule    |-> cl[Stage1[4]].value ]

\* await Promise.all(artefacts) returns; createMgmtApiGrant(backend) is called
Stage1Settled ==
  /\ pc = "stage1"
  /\ ~SomeRejected(calls, Stage1)
  /\ AllResolved(calls, Stage1Awaited)
  /\ artefacts' = [ artefacts EXCEPT !.portal  = Stage1Results(calls).portal,
                                     !.backend = Stage1Results(calls).backend,
                                     !.api     = Stage1Results(calls).api,
                                     !.rule    = Stage1Results(calls).rule ]
  /\ IF Stage1Results(calls).backend = Undefined
     THEN \* backendClient.client_id of undefined: TypeError
          /\ pc' = "rejected"
          /\ calls' = Consumed(calls, Stage1Awaited)
     ELSE /\ calls' = [Consumed(calls, Stage1Awaited) EXCEPT !["mgmt_grant"] =
                         createMgmtApiGrant(config, @, Stage1Results(calls).backend)]
          /\ pc' = "stage2"
  /\ UNCHANGED << config, tenant, found, selectedConnections, patches, files,
                  console, rateLimited, failures, runs, processExit >>

\* await createMgmtApiGrant returns; createArtefacts returns the bundle and
\* enableConnections issues the get of every selected connection
GrantSettled ==
  /\ pc = "stage2"
  /\ calls["mgmt_grant"].status = "resolved"
  /\ artefacts' = [artefacts EXCEPT !.mgmt_grant = calls["mgmt_grant"].value]
  /\ calls' = [ c \in CallIds |->
                  IF \E i \in DOMAIN Gets : c = Gets[i]
                  THEN LET i == CHOOSE j \in DOMAIN Gets : c = Gets[j]
                       IN  getEntity(config, calls[c], "connections",
                                     selectedConnections[SelectionKeys[i]])
                  ELSE Consumed(calls, <<"mgmt_grant">>)[c] ]
  /\ pc' = "fetching"
  /\ UNCHANGED << config, tenant, found, selectedConnections, patches, files,
                  console, rateLimited, failures, runs, processExit >>

\* enableConnections with its two maps fused into one, cons.map(c =>
\* patchEntity("connections", c.id, {...})): the patches of the connections
\* ahead of the first TypeError are issued before it is thrown
FetchSettledFused ==
  /\ pc = "fetching"
  /\ AllResolved(calls, Gets)
  /\ LET cons == [i \in DOMAIN Gets |-> calls[Gets[i]].value]
         Derivable(i) == /\ cons[i] /= Undefined
                         /\ artefacts.portal /= Undefined
                         /\ artefacts.backend /= Undefined
         mapped == {i \in DOMAIN cons : \A j \in 1..i : Derivable(j)}
     IN  /\ patches' = [i \in 1..Cardinality(mapped) |-> DerivePatch(cons[i], artefacts)]
         /\ calls' = [ c \in CallIds |->
                         IF \E i \in mapped : c = Patches[i]
                         THEN LET i == CHOOSE j \in mapped : c = Patches[j]
                                  p == DerivePatch(cons[i], artefacts)
                              IN  patchEntity(config, calls[c], "connections",
                                              p.id, p.patch)
                         ELSE Consumed(calls, Gets)[c] ]
         /\ pc' = IF mapped = DOMAIN cons THEN "patching" ELSE "rejected"
  /\ UNCHANGED << config, tenant, found, selectedConnections, artefacts, files,
                  console, rateLimited, failures, runs, processExit >>

\* await Promise.all(ps) returns; cons.map derives the patches and every
\* patch is issued
FetchSettled ==
  /\ pc = "fetching"
  /\ AllResolved(calls, Gets)
  /\ LET cons == [i \in DOMAIN Gets |-> calls[Gets[i]].value]
     IN  IF \/ \E i \in DOMAIN cons : cons[i] = Undefined
            \/ artefacts.portal = Undefined
            \/ artefacts.backend = Undefined
         THEN \* c.id or artefacts.portal.client_id of undefined: TypeError
              /\ pc' = "rejected"
              /\ calls' = Consumed(calls, Gets)
              /\ UNCHANGED patches
         ELSE /\ patches' = [i \in DOMAIN cons |-> DerivePatch(cons[i], artefacts)]
              /\ calls' = [ c \in CallIds |->
                              IF \E i \in DOMAIN Patches : c = Patches[i]
                              THEN LET i == CHOOSE j \in DOMAIN Patches : c = Patches[j]
                                       p == DerivePatch(cons[i], artefacts)
                                   IN  patchEntity(config, calls[c], "connections",
                                                   p.id, p.patch)
                              ELSE Consumed(calls, Gets)[c] ]
              /\ pc' = "patching"
  /\ UNCHANGED << config, tenant, found, selectedConnections, artefacts, files,
                  console, rateLimited, failures, runs, processExit >>

\* what Promise.all(patches.map(...)) resolves with, the value enableConnections
\* returns: the results of the patch calls in the order of the array
PatchResults(cl) == [i \in DOMAIN Patches |-> cl[Patches[i]].value]

\* runSetup calling enableConnections without awaiting it: generateEnv
\* starts while patches are out
PatchSettledEarly ==
  /\ pc = "patching"
  /\ calls' = Consumed(calls, Patches)
  /\ pc' = IF artefacts.portal = Undefined \/ artefacts.backend = Undefined
           THEN "rejected"
           ELSE "writing_client"
  /\ UNCHANGED << config, tenant, found, selectedConnections, artefacts,
                  patches, files, console, rateLimited, failures, runs, processExit >>

\* await Promise.all(patches...) returns; enableConnections returns and
\* generateEnv builds both blocks and starts writing client.env
PatchSettled ==
  /\ pc = "patching"
  /\ AllResolved(calls, Patches)
  /\ calls' = Consumed(calls, Patches)
  /\ pc' = IF artefacts.portal = Undefined \/ artefacts.backend = Undefined
           THEN "rejected"
           ELSE "writing_client"
  /\ UNCHANGED << config, tenant, found, selectedConnections, artefacts,
                  patches, files, console, rateLimited, failures, runs, processExit >>

\* writeFileAsync of generateEnv completes: client.env first, then server.env,
\* then runSetup prints its last line
WriteDone(ok) ==
  /\ pc \in {"writing_client", "writing_server"}
  /\ IF ok
     THEN /\ UNCHANGED failures
          /\ IF pc = "writing_client"
             THEN /\ files' = [files EXCEPT !.client = client_env(config, artefacts)]
                  /\ pc' = "writing_server"
                  /\ UNCHANGED console
             ELSE /\ files' = [files EXCEPT !.server = server_env(config, artefacts)]
                  /\ pc' = "done"
                  /\ console' = Append(console,
                        "Done. Copy the generated .env files in respective folders.")
     ELSE /\ failures < MaxFailures
          /\ failures' = failures + 1
          /\ pc' = "rejected"
          /\ UNCHANGED <<files, console>>
  /\ UNCHANGED << config, tenant, found, selectedConnections, calls, artefacts,
                  patches, rateLimited, runs, processExit >>

\* the operator runs the script again once it has ended: a new process
\* against the same tenant and the same directory
Rerun ==
  /\ pc \in {"done", "exited"}
  /\ runs < MaxRuns
  /\ runs' = runs + 1
  /\ pc' = "discovering"
  /\ found' = StartFound
  /\ selectedConnections' = Undefined
  /\ calls' = StartCalls
  /\ artefacts' = StartArtefacts
  /\ patches' = << >>
  /\ console' = StartConsole
  /\ processExit' = << >>
  /\ UNCHANGED <<config, tenant, files, rateLimited, failures>>

Next ==
  \/ \E s \in Range(Strategies), o \in Outcomes : FindResponse(s, o)
  \/ DiscoveryRejected
  \/ validateConnections
  \/ \E ad \in Range(found["ad"].value), sms \in Range(found["sms"].value),
        email \in Range(found["email"].value) : PromptAnswer(ad, sms, email)
  \/ \E c \in {"portal", "rule"}, ok \in BOOLEAN : ReadFileDone(c, ok)
  \/ \E c \in CallIds, o \in Outcomes : Respond(c, o)
  \/ \E c \in CallIds : DelayElapsed(c)
  \/ Stage1Rejected
  \/ Stage1Settled
  \/ GrantSettled
  \/ FetchSettled
  \/ PatchSettled
  \/ \E ok \in BOOLEAN : WriteDone(ok)

\* one run of the script
Spec == Init /\ [][Next]_vars

\* Runs in which nothing fails for good: the remote answers with success or
\* with 429, and the files are read and written.
NextFailureFree ==
  \/ \E s \in Range(Strategies) : FindResponse(s, "ok")
  \/ validateConnections
  \/ \E ad \in Range(found["ad"].value), sms \in Range(found["sms"].value),
        email \in Range(found["email"].value) : PromptAnswer(ad, sms, email)
  \/ \E c \in {"portal", "rule"} : ReadFileDone(c, TRUE)
  \/ \E c \in CallIds, o \in {"ok", "429"} : Respond(c, o)
  \/ \E c \in CallIds : DelayElapsed(c)
  \/ Stage1Settled
  \/ GrantSettled
  \/ FetchSettled
  \/ PatchSettled
  \/ WriteDone(TRUE)
  \/ Rerun

\* a tenant that passes validateConnections: one connection of each strategy
InitRerun ==
  /\ Init
  /\ tenant = InitialTenant([s \in Range(Strategies) |-> 1])

\* failure-free runs of the script, one after the other, against one tenant
SpecRerun == InitRerun /\ [][NextFailureFree]_vars

\* The environment keeps its part: the remote answers every request it is
\* sent, and the timer of every delay() fires.
Responsive ==
  \A c \in CallIds :
    /\ WF_vars(\E o \in Outcomes : Respond(c, o))
    /\ WF_vars(DelayElapsed(c))

\* one run of the script, failures included, against a remote that answers
\* and a tenant that passes validateConnections
SpecLive == InitRerun /\ [][Next]_vars /\ Responsive

(* ---------------------------------------------------------------------- *)
(* enableConnections and generateEnv on enumerated inputs                  *)
(* ---------------------------------------------------------------------- *)

\* a client object as the remote returns it
ClientSample(k, name) ==
  [ client_id |-> "c" \o ToString(k), client_secret |-> "secret" \o ToString(k),
    name |-> name ]

RECURSIVE SeqsUpTo(_, _)
SeqsUpTo(S, n) ==
  IF n = 0 THEN {<< >>}
  ELSE LET shorter == SeqsUpTo(S, n - 1)
       IN  shorter \cup {Append(q, x) : q \in shorter, x \in S}

EnabledSamples == SeqsUpTo({"x", "c1", "c2"}, MaxEnabled)

\* the strategy of a fetched connection, or the mark of a get that failed
StrategyTags == {"ad", "sms", "email", "auth0"}
GetFailed == "<failed>"

\* getEntity("connections", id) settled: with the connection, or with undefined
FetchedCall(cfg, id, strategy, enabled) ==
  IF strategy = GetFailed
  THEN handleError(Answered(getEntity(cfg, NoCall, "connections", id), "500"), "500")
  ELSE Resolved(Answered(getEntity(cfg, NoCall, "connections", id), "ok"),
                JsonText([ id |-> id, name |-> "my-" \o id, strategy |-> strategy,
                           enabled_clients |-> enabled, metadata |-> EmptyObject ]))

\* enableConnections at its first await, every get settled
InitPatch ==
  /\ pc = "fetching"
  /\ config = DefaultConfig
  /\ tenant = InitialTenant([s \in Range(Strategies) |-> 1])
  /\ found = [s \in Range(Strategies) |->
                [ state |-> "resolved",
                  value |-> <<[name |-> "my-" \o ConnId(s, 1), value |-> ConnId(s, 1)]>>,
                  sent  |-> 1 ]]
  /\ selectedConnections =
       [ selected_ad_connection    |-> ConnId("ad", 1),
         selected_sms_connection   |-> ConnId("sms", 1),
         selected_email_connection |-> ConnId("email", 1) ]
  /\ \E enabled \in EnabledSamples,
        st \in [DOMAIN Gets -> StrategyTags \cup {GetFailed}] :
       calls = [ c \in CallIds |->
                   IF \E i \in DOMAIN Gets : c = Gets[i]
                   THEN LET i == CHOOSE j \in DOMAIN Gets : c = Gets[j]
                        IN  FetchedCall(DefaultConfig, ConnId(Strategies[i], 1),
                                        st[i], enabled)
                   ELSE NoCall ]
  /\ \E portal \in {Undefined, ClientSample(1, "Self Service Portal"),
                     ClientSample(2, "Self Service Portal")},
        backend \in {ClientSample(1, "Self Service Backend"),
                     ClientSample(2, "Self Service Backend")} :
       artefacts = [ portal |-> portal, backend |-> backend, api |-> Undefined,
                     rule |-> Undefined, mgmt_grant |-> Undefined ]
  /\ patches = << >>
  /\ files = [client |-> NoFile, server |-> NoFile]
  /\ console = StartConsole
  /\ rateLimited = 0
  /\ failures = 0
  /\ runs = 1
  /\ processExit = << >>

SpecPatch == InitPatch /\ [][FetchSettled]_vars

ConfigSamples ==
  { [ domain |-> d, token |-> "tok", portal_url |-> "https://portal.example.com" ] :
      d \in {"t.example.com", "u.eu.example.com"} }

\* what a slot other than portal and backend can hold
SlotSamples(prefix) == {Undefined, [id |-> prefix \o "1", name |-> "Self Service"]}

\* generateEnv at its first await: both blocks are built, client.env is
\* being written
InitEnv ==
  /\ pc = "writing_client"
  /\ config \in ConfigSamples
  /\ tenant = InitialTenant([s \in Range(Strategies) |-> 1])
  /\ found = StartFound
  /\ selectedConnections = Undefined
  /\ calls = StartCalls
  /\ \E kp \in 1..(2 * MaxRuns), kb \in 1..(2 * MaxRuns),
        api \in SlotSamples("rs"), rule \in SlotSamples("rul"),
        grant \in SlotSamples("cgr") :
       artefacts = [ portal  |-> ClientSample(kp, "Self Service Portal"),
                     backend |-> ClientSample(kb, "Self Service Backend"),
                     api |-> api, rule |-> rule, mgmt_grant |-> grant ]
  /\ patches = << >>
  /\ files = [client |-> NoFile, server |-> NoFile]
  /\ console = StartConsole
  /\ rateLimited = 0
  /\ failures = 0
  /\ runs = 1
  /\ processExit = << >>

NextEnv == \E ok \in BOOLEAN : WriteDone(ok)

SpecEnv == InitEnv /\ [][NextEnv]_vars

(* ---------------------------------------------------------------------- *)
(* Properties                                                              *)
(* ---------------------------------------------------------------------- *)

\* the clients of a tenant created with a given name, oldest first
ClientsNamed(t, name) == SelectSeq(t.clients, LAMBDA c : c.name = name)

Pending == {"reading", "inflight", "delay"}

\* C1: whenever a client-grants create request has been issued, the backend
\* create of this run has been answered (its client is in the tenant and its
\* response is the backend slot), and the client_id of the grant payload is
\* the client_id of that response; a grant the run obtained carries it too.
C1_GrantAfterBackend ==
  /\ \A i \in DOMAIN calls["mgmt_grant"].sent :
       LET req      == calls["mgmt_grant"].sent[i]
           backends == ClientsNamed(tenant, "Self Service Backend")
       IN  /\ req.entity = "client-grants"
           /\ artefacts.backend \notin {Unset, Undefined}
           /\ calls["backend"].status \notin Pending
           /\ Len(backends) = runs
           /\ req.json.client_id = backends[runs].client_id
           /\ req.json.client_id = artefacts.backend.client_id
  /\ artefacts.mgmt_grant \notin {Unset, Undefined}
       => artefacts.mgmt_grant.client_id = artefacts.backend.client_id

\* the grant request of a second run is out for the second time, after a 429
C1_Witness ==
  /\ runs = 2
  /\ calls["mgmt_grant"].status = "inflight"
  /\ calls["mgmt_grant"].answers = <<"429">>
  /\ Len(calls["mgmt_grant"].sent) = 2

\* what the remote holds for the resource a call was about
Held(t, call) ==
  CASE call.args.op = "create" /\ call.args.entity = "clients"          -> Range(t.clients)
    [] call.args.op = "create" /\ call.args.entity = "resource-servers" -> Range(t.rs)
    [] call.args.op = "create" /\ call.args.entity = "rules"            -> Range(t.rules)
    [] call.args.op = "create" /\ call.args.entity = "client-grants"    -> Range(t.grants)
    [] OTHER -> {t.connections[call.args.id]}

\* C2: every request of a call equals its first request; and a call whose
\* N answers before the last were 429 and whose last answer is a success has
\* resolved with the remote's result, has waited N times 5000 ms, and has
\* issued N+1 requests.
C2_RetryUntilSuccess ==
  \A c \in CallIds :
    LET call == calls[c]
        n    == Len(call.answers)
    IN  /\ \A i \in DOMAIN call.sent : call.sent[i] = call.sent[1]
        /\ (n > 0 /\ call.answers[n] = "ok" /\ \A i \in 1..(n - 1) : call.answers[i] = "429")
           => /\ call.status = "resolved"
              /\ call.value \in Held(tenant, call)
              /\ Len(call.waits) = n - 1
              /\ \A i \in DOMAIN call.waits : call.waits[i] = 5000
              /\ Len(call.sent) = n

\* a patch succeeded at its third request
C2_Witness ==
  \E i \in DOMAIN Patches :
    /\ calls[Patches[i]].answers = <<"429", "429", "ok">>
    /\ calls[Patches[i]].status = "resolved"

\* C3: a call whose last answer is a failure other than 429 has resolved with
\* undefined, has issued no request after that answer, has waited only for
\* the 429 answers before it, and has printed the error last.
C3_NoRetryOnOtherFailure ==
  \A c \in CallIds :
    LET call == calls[c]
        n    == Len(call.answers)
    IN  (n > 0 /\ call.answers[n] \in {"500", "none"})
        => /\ call.status = "resolved"
           /\ call.value = Undefined
           /\ Len(call.sent) = n
           /\ Len(call.waits) = Cardinality({i \in 1..n : call.answers[i] = "429"})
           /\ call.log /= << >>
           /\ call.log[Len(call.log)] = "<err.toString()>"

\* a get failed without a status code after one 429
C3_Witness ==
  \E i \in DOMAIN Gets : calls[Gets[i]].answers = <<"429", "none">>

NoFiles == [client |-> NoFile, server |-> NoFile]

\* C4: once discovery has returned no connection for some strategy, the run
\* is discovering or over, no create, get or patch has been issued, the tenant
\* holds nothing new and no file is written; and the run exits only when all
\* three discoveries have returned.
C4_NoProvisioningWithoutConnections ==
  /\ (\E s \in Range(Strategies) : found[s].state = "resolved" /\ found[s].value = << >>)
       => /\ pc \in {"discovering", "exited", "rejected"}
          /\ calls = StartCalls
          /\ files = NoFiles
          /\ \A k \in {"clients", "rs", "rules", "grants"} : tenant[k] = << >>
          /\ \A id \in DOMAIN tenant.connections :
               tenant.connections[id].enabled_clients = <<"x">>
  /\ pc = "exited" => \A s \in Range(Strategies) : found[s].state = "resolved"

\* the run has exited for want of an email connection only
C4_Witness ==
  /\ pc = "exited"
  /\ found["ad"].value /= << >>
  /\ found["sms"].value /= << >>
  /\ found["email"].value = << >>

\* C5 as claimed: a run that was rejected was rejected by a discovery that
\* failed or by a file that could not be read or written, never after a
\* failure of a create, get or patch request.
C5_RemoteFailureNeverHalts ==
  pc = "rejected"
    => \/ \E s \in Range(Strategies) : found[s].state = "rejected"
       \/ \E c \in CallIds : calls[c].status = "rejected"
       \/ patches /= << >>

\* C6: when the patches are derived, the enabled_clients of each is the
\* enabled_clients of its fetched connection followed by the portal and the
\* backend client id, nothing dropped; its metadata names sAMAccountName
\* exactly when the strategy of the connection is "ad" and is empty
\* otherwise; and the PATCH request goes to the id of that connection.
C6_PatchDerivation ==
  [][ (pc = "fetching" /\ pc' = "patching")
      => \A i \in DOMAIN Gets :
           LET c   == calls[Gets[i]].value
               n   == Len(c.enabled_clients)
               ec  == patches'[i].patch.enabled_clients
               req == calls'[Patches[i]].sent[1]
           IN  /\ Len(ec) = n + 2
               /\ SubSeq(ec, 1, n) = c.enabled_clients
               /\ ec[n + 1] = artefacts.portal.client_id
               /\ ec[n + 2] = artefacts.backend.client_id
               /\ (c.strategy = "ad") <=>
                    (patches'[i].patch.metadata = [username_field_name |-> "sAMAccountName"])
               /\ (c.strategy /= "ad") <=> (patches'[i].patch.metadata = EmptyObject)
               /\ patches'[i].id = c.id
               /\ Len(calls'[Patches[i]].sent) = 1
               /\ req.method = "PATCH" /\ req.entity = "connections"
               /\ req.id = c.id
               /\ req.json = patches'[i].patch ]_vars

\* patches derived for connections that held the portal client id already:
\* it is appended again; only the first connection is an "ad" connection
C6_Witness ==
  /\ pc = "patching"
  /\ patches[1].patch.enabled_clients = <<"c1", "x", "c1", "c2">>
  /\ patches[1].patch.metadata = [username_field_name |-> "sAMAccountName"]
  /\ patches[3].patch.metadata = EmptyObject
  /\ calls["patch3"].sent[1].id = "con_email1"

\* C7: at the end of the k-th of k failure-free runs the tenant holds k
\* portal clients, k backend clients, k APIs, k rules and k grants, all
\* clients with different ids, and the newest are the ones this run created.
C7_RerunDuplicates ==
  (pc = "done" /\ failures = 0)
    => LET portals  == ClientsNamed(tenant, "Self Service Portal")
           backends == ClientsNamed(tenant, "Self Service Backend")
       IN  /\ Len(portals) = runs
           /\ Len(backends) = runs
           /\ Len(tenant.clients) = 2 * runs
           /\ Len(tenant.rs) = runs
           /\ Len(tenant.rules) = runs
           /\ Len(tenant.grants) = runs
           /\ Cardinality({tenant.clients[i].client_id : i \in DOMAIN tenant.clients})
                = 2 * runs
           /\ artefacts.portal = portals[runs]
           /\ artefacts.backend = backends[runs]
           /\ artefacts.api = tenant.rs[runs]
           /\ artefacts.rule = tenant.rules[runs]
           /\ artefacts.mgmt_grant = tenant.grants[runs]

\* a second run has ended and every resource is there twice
C7_Witness ==
  /\ pc = "done"
  /\ runs = 2
  /\ Len(tenant.clients) = 4
  /\ Len(tenant.rs) = 2 /\ Len(tenant.rules) = 2 /\ Len(tenant.grants) = 2

\* C8: client.env, once written, is exactly the three REACT_APP lines and
\* server.env exactly the four back-end lines, built from the domain, the
\* portal client id, and the backend client id and secret alone.
C8_EnvBlocks ==
  /\ files.client /= NoFile
       => files.client =
            "REACT_APP_domain=" \o config.domain \o "\n"
            \o "REACT_APP_clientID=" \o artefacts.portal.client_id \o "\n"
            \o "REACT_APP_audience=urn:self-service-portal-api\n"
  /\ files.server /= NoFile
       => files.server =
            "NON_INTERACTIVE_CLIENT_ID=" \o artefacts.backend.client_id \o "\n"
            \o "NON_INTERACTIVE_CLIENT_SECRET=" \o artefacts.backend.client_secret \o "\n"
            \o "DOMAIN=" \o config.domain \o "\n"
            \o "AUDIENCE=urn:self-service-portal-api\n"

\* both files are written for a bundle without api, rule and grant
C8_Witness ==
  /\ pc = "done"
  /\ config.domain = "u.eu.example.com"
  /\ artefacts.portal.client_id = "c2"
  /\ artefacts.backend.client_id = "c1"
  /\ artefacts.api = Undefined /\ artefacts.rule = Undefined
  /\ artefacts.mgmt_grant = Undefined
  /\ files.client /= NoFile /\ files.server /= NoFile

\* C9: createArtefacts leaves its first await either because a template file
\* could not be read, or with all four creations issued and answered, each
\* slot holding the result of its own creation: the remote's object if its
\* last answer was a success, undefined if it was a failure.
C9_FailureDoesNotAbortOthers ==
  [][ (pc = "stage1" /\ pc' /= "stage1")
      => \/ \E c \in {"portal", "rule"} :
              calls[c].status = "rejected" /\ calls[c].sent = << >>
         \/ \A i \in DOMAIN Stage1 :
              LET call == calls[Stage1[i]]
                  n    == Len(call.answers)
              IN  /\ call.status = "resolved"
                  /\ n >= 1
                  /\ Len(call.sent) = n
                  /\ call.sent[1].json.name =
                       <<"Self Service Portal", "Self Service Backend",
                         "Self Service API", "Self Service Issue Scopes">>[i]
                  /\ IF call.answers[n] = "ok"
                     THEN /\ artefacts'[Stage1[i]] \in Held(tenant, call)
                          /\ artefacts'[Stage1[i]].name = call.sent[1].json.name
                     ELSE artefacts'[Stage1[i]] = Undefined ]_vars

\* the portal creation failed and the other three slots hold their objects
C9_Witness ==
  /\ pc = "stage2"
  /\ artefacts.portal = Undefined
  /\ artefacts.backend \in Range(tenant.clients)
  /\ artefacts.api \in Range(tenant.rs)
  /\ artefacts.rule \in Range(tenant.rules)

\* C10: while a client-grants request has been issued or a grant exists, no
\* stage-1 creation is reading its template, on the wire or in a backoff, and
\* all four slots have been assigned.
C10_GrantAfterAllFour ==
  (calls["mgmt_grant"].sent /= << >> \/ tenant.grants /= << >>)
    => \A i \in DOMAIN Stage1 :
         /\ calls[Stage1[i]].status \notin Pending
         /\ artefacts[Stage1[i]] /= Unset

\* the grant request is out after a stage 1 in which the portal creation
\* failed and two 429 answers were waited for
C10_Witness ==
  /\ calls["mgmt_grant"].status = "inflight"
  /\ calls["mgmt_grant"].answers = << >>
  /\ artefacts.portal = Undefined
  /\ rateLimited = 2

\* C11: a patch request exists only when no get of the run is on the wire or
\* in a backoff; enableConnections leaves its first await only with every get
\* settled, none on a 429; and what it returns has one entry per selection
\* key, in the order of the keys: the patched connection of that key, or
\* undefined where the patch failed.
C11_FetchThenPatch ==
  /\ [] ( (\E i \in DOMAIN Patches : calls[Patches[i]].sent /= << >>)
            => /\ pc /= "fetching"
               /\ \A j \in DOMAIN Gets : calls[Gets[j]].status \notin Pending )
  /\ [][ (pc = "fetching" /\ pc' /= "fetching")
          => \A j \in DOMAIN Gets :
               LET call == calls[Gets[j]]
               IN  /\ call.status = "resolved"
                   /\ call.answers /= << >>
                   /\ call.answers[Len(call.answers)] /= "429"
                   /\ Len(call.sent) = Len(call.answers) ]_vars
  /\ [][ (pc = "patching" /\ pc' /= "patching")
          => LET result == PatchResults(calls)
             IN  /\ DOMAIN result = DOMAIN SelectionKeys
                 /\ \A i \in DOMAIN result :
                      IF calls[Patches[i]].answers[Len(calls[Patches[i]].answers)] = "ok"
                      THEN /\ result[i].id = selectedConnections[SelectionKeys[i]]
                           /\ result[i] = tenant.connections[result[i].id]
                      ELSE result[i] = Undefined ]_vars

\* the patch of the third connection is done while the patch of the first is
\* out again after a 429 and the patch of the second has not been answered
C11_Witness ==
  /\ pc = "patching"
  /\ calls["patch3"].status = "resolved"
  /\ calls["patch3"].answers = <<"ok">>
  /\ calls["patch1"].status = "inflight"
  /\ calls["patch1"].answers = <<"429">>
  /\ calls["patch2"].status = "inflight"
  /\ calls["patch2"].answers = << >>

\* C12: a started operation is on the wire, in a backoff, or ended, and it
\* ends in one of two ways only: with the remote's result after a success, or
\* with undefined after a failure other than 429.  An operation whose last
\* answer is 429 has not ended, however many 429 answers came before, and a
\* run with such an operation in its current stage has not reached the
\* writing of the files.  Against a remote that answers every request, with
\* finitely many 429 answers, every operation on the wire or in a backoff
\* ends: from some point on no operation is on the wire or in a backoff.
C12_ThreeFates ==
  /\ [] ( \A c \in CallIds :
            LET call == calls[c]
                n    == Len(call.answers)
            IN  /\ call.sent /= << >> => call.status \in {"inflight", "delay", "resolved"}
                /\ call.status = "resolved"
                     => /\ n >= 1 /\ Len(call.sent) = n
                        /\ \/ call.answers[n] = "ok" /\ call.value \in Held(tenant, call)
                           \/ call.answers[n] \in {"500", "none"} /\ call.value = Undefined
                /\ (n >= 1 /\ call.answers[n] = "429")
                     => \/ call.status = "delay" /\ Len(call.sent) = n
                        \/ call.status = "inflight" /\ Len(call.sent) = n + 1
                /\ call.status \in Pending
                     => pc \notin {"writing_client", "writing_server", "done"} )
  /\ <>[] (\A c \in CallIds : calls[c].status \notin {"inflight", "delay"})

\* a creation is on the wire for the third time, both answers before were 429
C12_Witness ==
  \E i \in DOMAIN Stage1 :
    /\ calls[Stage1[i]].status = "inflight"
    /\ calls[Stage1[i]].answers = <<"429", "429">>
    /\ Len(calls[Stage1[i]].sent) = 3

\* C13: of the requests a call has issued at most the last is unanswered, and
\* it is exactly while the call is on the wire; every request after the first
\* follows a 429 answer to the request before it and a completed wait of
\* 5000 ms for that answer; during the wait no request is out; and a call
\* that ended issued nothing after its last answer.
C13_AtMostOneInFlight ==
  \A c \in CallIds :
    LET call == calls[c]
        n    == Len(call.answers)
        m    == Len(call.sent)
    IN  /\ m - n \in {0, 1}
        /\ (m - n = 1) <=> (call.status = "inflight")
        /\ \A i \in 2..m :
             /\ call.answers[i - 1] = "429"
             /\ Len(call.waits) >= i - 1
             /\ call.waits[i - 1] = DELAY_SECONDS * 1000
        /\ call.status = "delay"
             => /\ m = n /\ call.answers[n] = "429"
                /\ Len(call.waits) = n
        /\ call.status = "resolved" => m = n /\ call.answers[n] /= "429"

\* the get of the second connection is out again after a 429 and the wait,
\* while the get of the first is still waiting
C13_Witness ==
  /\ calls["get2"].status = "inflight"
  /\ calls["get2"].answers = <<"429">>
  /\ calls["get2"].waits = <<5000>>
  /\ Len(calls["get2"].sent) = 2
  /\ calls["get1"].status = "delay"

\* C14: every discovery query is sent once; an answer to it that is a
\* failure, 429 included, rejects its promise; and from then on the run is
\* still at the await of discovery or has been rejected there: it never
\* prompts, no selection exists, no create, get or patch has been issued,
\* the tenant and the files are untouched and nothing more is printed.
C14_DiscoveryFailurePropagates ==
  /\ [] (\A s \in Range(Strategies) : found[s].sent = 1)
  /\ [][ ( /\ \E s \in Range(Strategies) : found[s].state = "pending"
            /\ (rateLimited' /= rateLimited \/ failures' /= failures) )
          => \E s \in Range(Strategies) :
               found[s].state = "pending" /\ found'[s].state = "rejected" ]_vars
  /\ [] ( (\E s \in Range(Strategies) : found[s].state = "rejected")
            => /\ pc \in {"discovering", "rejected"}
               /\ selectedConnections = Undefined
               /\ calls = StartCalls
               /\ console = StartConsole
               /\ files = NoFiles
               /\ \A k \in {"clients", "rs", "rules", "grants"} : tenant[k] = << >>
               /\ \A id \in DOMAIN tenant.connections :
                    tenant.connections[id].enabled_clients = <<"x">> )
  /\ [][ (\E s \in Range(Strategies) : found[s].state = "rejected")
          => pc' \in {pc, "rejected"} ]_vars

\* the run was rejected by a 429 to the sms query, after the ad query had
\* found connections and before the email query was answered
C14_Witness ==
  /\ pc = "rejected"
  /\ found["sms"].state = "rejected"
  /\ rateLimited = 1 /\ failures = 0
  /\ found["ad"].state = "resolved" /\ found["ad"].value /= << >>
  /\ found["email"].state = "pending"

\* C15: when the three discoveries have returned and one of them returned no
\* connection, the step that follows prints one line, the message of the
\* first strategy without connections in the order ad, sms, email, and calls
\* process.exit once, with 0; the operator is not prompted, no selection is
\* made, and the process takes no step after it.  With connections of all
\* three strategies the step prompts, prints nothing and does not exit.
C15_MissingStrategyExitsZero ==
  /\ [][ (pc = "discovering" /\ pc' \notin {"discovering", "rejected"})
          => LET ad    == found["ad"].value
                 sms   == found["sms"].value
                 email == found["email"].value
             IN  IF ad = << >> \/ sms = << >> \/ email = << >>
                 THEN /\ pc' = "exited"
                      /\ processExit' = <<0>>
                      /\ console' = Append(console,
                           IF ad = << >>
                           THEN "AD connection is required. Please setup an AD connection and rerun the script."
                           ELSE IF sms = << >>
                           THEN "SMS passwordless connection is required. Please setup passwordless SMS and rerun the script."
                           ELSE "Email passwordless connection is required. Please setup passwordless Email and rerun the script.")
                      /\ selectedConnections' = Undefined
                 ELSE /\ pc' = "prompting"
                      /\ processExit' = << >>
                      /\ console' = console ]_vars
  /\ [] ( /\ (pc = "exited") <=> (processExit /= << >>)
          /\ pc = "exited"
               => /\ processExit = <<0>>
                  /\ Len(console) = Len(StartConsole) + 1
                  /\ selectedConnections = Undefined
                  /\ calls = StartCalls )
  /\ [][pc /= "exited"]_vars

\* the tenant has neither an ad nor an sms connection: the run has exited
\* with 0 after the message about the ad connection alone
C15_Witness ==
  /\ pc = "exited"
  /\ processExit = <<0>>
  /\ found["ad"].value = << >>
  /\ found["sms"].value = << >>
  /\ found["email"].value /= << >>
  /\ console[Len(console)] =
       "AD connection is required. Please setup an AD connection and rerun the script."

\* C16: enableConnections leaves its first await in one of two ways.  If
\* every get returned a connection and the portal and the backend slot hold
\* clients, one patch request is issued for each of the three connections.
\* Otherwise the run is rejected, no patch call is made and the tenant is as
\* it was.  So patch requests exist for all three connections or for none,
\* and the last two enabled_clients of every patch request are the client
\* ids of the portal and of the backend client the remote created.
C16_PatchAllOrNothing ==
  /\ [][ (pc = "fetching" /\ pc' /= "fetching")
          => IF /\ \A j \in DOMAIN Gets : calls[Gets[j]].value /= Undefined
                /\ artefacts.portal /= Undefined
                /\ artefacts.backend /= Undefined
             THEN /\ pc' = "patching"
                  /\ \A i \in DOMAIN Patches :
                       /\ calls'[Patches[i]].status = "inflight"
                       /\ Len(calls'[Patches[i]].sent) = 1
             ELSE /\ pc' = "rejected"
                  /\ \A i \in DOMAIN Patches : calls'[Patches[i]] = NoCall
                  /\ patches' = << >>
                  /\ tenant' = tenant ]_vars
  /\ [] ( (\E i \in DOMAIN Patches : calls[Patches[i]].sent /= << >>)
            => \A i \in DOMAIN Patches : calls[Patches[i]].sent /= << >> )
  /\ [] ( \A i \in DOMAIN Patches : \A k \in DOMAIN calls[Patches[i]].sent :
            LET ec == calls[Patches[i]].sent[k].json.enabled_clients
                n  == Len(ec)
            IN  /\ n >= 2
                /\ artefacts.portal \in Range(ClientsNamed(tenant, "Self Service Portal"))
                /\ artefacts.backend \in Range(ClientsNamed(tenant, "Self Service Backend"))
                /\ ec[n - 1] = artefacts.portal.client_id
                /\ ec[n] = artefacts.backend.client_id )

\* all five artefacts were created, a get failed, and the run was rejected
\* with no patch derived or issued and no connection changed
C16_Witness ==
  /\ pc = "rejected"
  /\ failures = 1
  /\ \A k \in DOMAIN artefacts : artefacts[k] \notin {Unset, Undefined}
  /\ patches = << >>
  /\ \A i \in DOMAIN Patches : calls[Patches[i]] = NoCall
  /\ \A id \in DOMAIN tenant.connections :
       tenant.connections[id].enabled_clients = <<"x">>

DoneMessage == "Done. Copy the generated .env files in respective folders."

\* C17: a file is written only by a step of generateEnv, and then all five
\* slots of the bundle have been assigned, the patches have been derived and
\* no create, get or patch is on the wire or in a backoff; server.env is
\* never there without client.env; up to and including the start of
\* generateEnv no file is written, so a run that exited or was rejected before
\* has written none, and after its end nothing is written; and the Done
\* line is printed only in the step that ends the run with both files
\* written, as the last line.
C17_FilesAfterEverything ==
  /\ [][ files' /= files
          => /\ pc \in {"writing_client", "writing_server"}
             /\ \A k \in DOMAIN artefacts : artefacts[k] /= Unset
             /\ Len(patches) = Len(SelectionKeys)
             /\ \A c \in CallIds : calls[c].status \notin Pending
             /\ IF pc = "writing_client"
                THEN files = NoFiles /\ files'.client /= NoFile /\ files'.server = NoFile
                ELSE files.client /= NoFile /\ files'.client = files.client
                     /\ files.server = NoFile /\ files'.server /= NoFile ]_vars
  /\ [] (files.server /= NoFile => files.client /= NoFile)
  /\ [] ( pc \in {"discovering", "exited", "prompting", "stage1", "stage2",
                   "fetching", "patching", "writing_client"}
            => files = NoFiles )
  /\ [][ (pc' \in {"exited", "rejected"} /\ pc \notin {"writing_client", "writing_server"})
          => files' = NoFiles ]_vars
  /\ [] ( (\E i \in DOMAIN console : console[i] = DoneMessage)
            => /\ pc = "done"
               /\ files.client /= NoFile /\ files.server /= NoFile
               /\ console[Len(console)] = DoneMessage
               /\ \A i \in 1..(Len(console) - 1) : console[i] /= DoneMessage )
  /\ [] (pc = "done" => console[Len(console)] = DoneMessage)

\* the run is done, both files are there and every selected connection has
\* the two clients enabled, after one failure the run went on from
C17_Witness ==
  /\ pc = "done"
  /\ files.client /= NoFile /\ files.server /= NoFile
  /\ console[Len(console)] = DoneMessage
  /\ failures = 1
  /\ \A i \in DOMAIN SelectionKeys :
       Len(tenant.connections[selectedConnections[SelectionKeys[i]]].enabled_clients) = 3

====
